---- MODULE Spec2Model ----
(***************************************************************************)
(* A model of the resumable concurrent extraction pipeline of clash_bot:   *)
(* scrape_no_restart.py (split_tags, reach_current, worker_task, main) and  *)
(* the partitioning helper get_fraction of multiwindow.py.                  *)
(*                                                                         *)
(* Identifiers (replay tags) are modelled as the integers 1..NumTags: the   *)
(* k-th distinct tag of the input CSV.  A line of the output CSV is the     *)
(* pair <<first field, row number>>; the header line is <<0, 0>> (its first *)
(* field "replay_tag" is no identifier).                                    *)
(***************************************************************************)
EXTENDS Integers, Sequences, FiniteSets, TLC

(***************************************************************************)
(* Bounds of the model.                                                     *)
(***************************************************************************)
\* length of the longest identifier list the partitioning is applied to
MaxListLen == 7
\* largest shard count the partitioning is applied to
MaxShards == 4
\* identifiers that may occur in a shard or an output file of the resume check
MaxResumeTag == 5
\* most rows of an output file of the resume check
MaxFileRows == 3
\* number of identifiers in the input CSV (REPLAY_PATH) of the pipeline
NumTags == 6
\* TOTAL_WORKERS (10 in the program), scaled down
TOTAL_WORKERS == 2
\* MAX_WORKERS (5 in the program), scaled down
MAX_WORKERS == 2
\* BATCH_SIZE (100 in the program), scaled down
BATCH_SIZE == 2
\* the recycle budget (the literal 10 of worker_task), scaled down
RecycleBudget == 2
\* most events (rows) one replay yields
MaxRows == 2
\* number of times main is started on the same output file
MaxRuns == 3
\* number of clans in the clans CSV of build_player_dataset
MaxClans == 2
\* most card events, and most placement events, of one replay page
MaxEvents == 3
\* most ids split_for_workers is applied to
MaxIds == 6
\* largest pool size (MAX_CONCURRENT_PAGES) split_for_workers is applied to
MaxPages == 3
\* number of player ids of the shard of multiwindow.run and playwright_testing.run
NumPlayers == 7
\* CHUNK_SIZE of multiwindow.py (100 in the program), scaled down
CHUNK_SIZE == 2
\* CHUNK_SIZE of playwright_testing.py (10 in the program), scaled down
PT_CHUNK_SIZE == 2
\* players playwright_testing.run takes as scanned per chunk file (the literal
\* 100 of number_of_players_scanned), scaled down
SCANNED_PER_CHUNK == 3
\* number of times run is started on the same chunk directory
MaxStarts == 3

\* fetch_clan_members: the default of its parameter retries
retries == 3

\* WORKER_ID of this process instance
WORKER_ID == 0
\* the shutdown sentinel None; identifiers are >= 1
NoneItem == 0

VARIABLES
    \* --- partitioning (split_tags / get_fraction applied to every shard) ---
    p_tags,      \* the full ordered identifier list
    p_n,         \* the shard count
    p_split,     \* slices split_tags returned for shard indices 0..Len-1
    p_frac,      \* slices get_fraction returned for shard indices 0..Len-1
    p_call,      \* one call of each function with arbitrary parameters i, n
    \* --- checkpoint resolver (reach_current applied once) ---
    r_shard,     \* the shard's identifier sequence
    r_exists,    \* os.path.exists(OUTPUT_CSV)
    r_file,      \* the lines of OUTPUT_CSV
    r_pc,        \* "ready" before the call, "done" after
    r_out,       \* the list reach_current returned
    \* --- parse_replay_html applied once ---
    q_cards,       \* the img.replay_card elements in document order
    q_places,      \* the div.markers > div elements in document order
    q_tag,         \* replay_tag
    q_pc,          \* "ready" before the call, "done" after
    q_out,         \* what the call returned or raised
    \* --- notScrape.py: build_player_dataset calling fetch_clan_members ---
    k_pc,          \* "next": at the head of the clan loop; "request": before
                   \* requests.get; "sleep": in the backoff sleep; "done"
    k_idx,         \* the clan being processed (1-based), 0 before the first
    k_attempt,     \* fetch_clan_members: attempt
    k_last_error,  \* fetch_clan_members: last_error, by kind
    k_records,     \* build_player_dataset: the clans whose members are in records
    k_dbg_exists,  \* debug_csv.exists()
    k_debug,       \* the lines of the debug CSV: <<clan_tag, error>>
    k_hist,        \* history: the responses to the requests made for this clan
    k_waits,       \* history: the exponents k of the sleeps backoff ** k for this clan
    \* --- multiwindow.py: split_for_workers applied once ---
    s_ids,         \* ids
    s_max,         \* max_workers
    s_pc,          \* "call" before the call, "loop" in the for loop, "done" after
    s_idx,         \* the loop variable idx
    s_buckets,     \* buckets
    \* --- the chunked scrapers: run of multiwindow.py, run of playwright_testing.py ---
    c_pc,          \* "start" before run, "loop" at the loop head, "save", "done"
    c_files,       \* battle_chunks/battles_chunk_k.csv: the positions it holds rows of
    c_cwd,         \* ./battles_chunk_k.csv, the final file of playwright_testing.run
    c_base,        \* number_of_files, resp. number_of_players_scanned
    c_index,       \* chunk_index
    c_start,       \* start, resp. idx: the position the loop is at
    c_data,        \* battle_rows, resp. battle_data: positions with gathered rows
    c_count,       \* processed_count
    c_done,        \* history: the positions some run has attempted
    c_over,        \* history: a write replaced a file of an earlier run
    c_runs,        \* number of starts of run so far
    \* --- the pipeline: main and its worker tasks ---
    run,                 \* which start of main this is (1 = first)
    mainpc,              \* main's position
    exists,              \* os.path.exists(OUTPUT_CSV)
    file,                \* the lines of OUTPUT_CSV
    replay_tags,         \* main: the remaining work of the shard
    total_tags,          \* main: len(replay_tags)
    start,               \* main: the loop variable of the batch loop
    batch_tags,          \* main: the current batch
    queue,               \* the asyncio.Queue's items, head first
    unfinished,          \* the asyncio.Queue's count of items not yet task_done
    results,             \* the dict results as <<tag, rows>> pairs in insertion order
    first_write,         \* main: first_write
    total_rows_written,  \* main: total_rows_written
    overall_completed,   \* overall_completed_ref["count"]
    batch_completed,     \* batch_completed_ref["count"]
    wpc,                 \* worker_task: position of each worker
    tag,                 \* worker_task: the dequeued item
    local_count,         \* worker_task: local_count
    context,             \* worker_task: state of the object bound to context
    page,                \* worker_task: state of the object bound to page
    raising,             \* worker_task: an exception is propagating
    \* --- history variables (not program state) ---
    unbound_ctx,         \* open contexts a worker created and holds no reference to
    sess_units,          \* units handled on the worker's current page
    recycled,            \* recycles the worker has completed in this batch
    saw_sentinel,        \* the worker dequeued a sentinel in this batch
    written,             \* the rows of the write of the current batch
    nwrites,             \* writes made for the current batch
    batch_no,            \* batches enqueued in this run
    settled,             \* batches of this run written or skipped
    prev_completed,      \* the previous run of main ran to completion
    prev_last_ok,        \* ... and its last unit was the shard's last, with >= 1 row
    failed,              \* units of the batch whose extraction raised: <<tag, kind, calls>>
    sess_invalid,        \* the worker's current page has had a blocked/malformed response
    ctx_id,              \* which context object the worker's variable context is bound to
    ctx_seq,             \* per worker: contexts browser.new_context has returned
                         \* to it during this batch
    batches,             \* the batches main has cut in this run, in order
    enq,                 \* per unit: times main put it on a queue in this run
    deq,                 \* per unit: times a worker got it from a queue in this run
    gets,                \* per worker: items queue.get() returned in this batch
    dones,               \* per worker: calls of queue.task_done() in this batch
    top_rows             \* over all runs: the highest shard position of a unit
                         \* whose fetch returned at least one row, 0 without one

part_vars == <<p_tags, p_n, p_split, p_frac, p_call>>
resume_vars == <<r_shard, r_exists, r_file, r_pc, r_out>>
bucket_vars == <<s_ids, s_max, s_pc, s_idx, s_buckets>>
chunk_vars == <<c_pc, c_files, c_cwd, c_base, c_index, c_start, c_data, c_count,
               c_done, c_over, c_runs>>
parse_vars == <<q_cards, q_places, q_tag, q_pc, q_out>>
clan_vars == <<k_pc, k_idx, k_attempt, k_last_error, k_records, k_dbg_exists, k_debug,
               k_hist, k_waits>>
file_vars == <<exists, file>>
main_vars == <<replay_tags, total_tags, start, batch_tags, first_write,
               total_rows_written>>
queue_vars == <<queue, unfinished>>
count_vars == <<overall_completed, batch_completed>>
worker_vars == <<wpc, tag, local_count, context, page, raising>>
hist_vars == <<unbound_ctx, sess_units, recycled, saw_sentinel, written, nwrites,
               batch_no, settled, prev_completed, prev_last_ok, failed,
               sess_invalid>>
track_vars == <<ctx_id, ctx_seq, batches, enq, deq, gets, dones, top_rows>>
pipe_vars == <<run, mainpc, file_vars, main_vars, queue_vars, results, count_vars,
               worker_vars, hist_vars, track_vars>>
vars == <<part_vars, resume_vars, parse_vars, clan_vars, bucket_vars, chunk_vars, pipe_vars>>

(***************************************************************************)
(* Sequence helpers.                                                        *)
(***************************************************************************)
Min(a, b) == IF a <= b THEN a ELSE b

\* Python's lst[a:b] for 0 <= a, 0 <= b (0-based, end exclusive, clipped)
Slice(lst, a, b) ==
    LET lo == Min(a, Len(lst))
        hi == Min(b, Len(lst))
    IN  IF hi <= lo THEN << >> ELSE SubSeq(lst, lo + 1, hi)

RECURSIVE Flatten(_)
Flatten(ss) == IF ss = << >> THEN << >> ELSE Head(ss) \o Flatten(Tail(ss))

IsPrefix(s, t) == Len(s) <= Len(t) /\ SubSeq(t, 1, Len(s)) = s

\* the identifier list k1, k1+1, ..., k2
Ids(k1, k2) == [i \in 1..(k2 - k1 + 1) |-> k1 + i - 1]

\* Python's lst.index(x): the 1-based position of the first occurrence, 0 = ValueError
RECURSIVE IndexFrom(_, _, _)
IndexFrom(lst, x, k) ==
    IF k > Len(lst) THEN 0
    ELSE IF lst[k] = x THEN k
    ELSE IndexFrom(lst, x, k + 1)

Index(lst, x) == IndexFrom(lst, x, 1)

(***************************************************************************)
(* Work Partitioner.                                                        *)
(***************************************************************************)
\* a partitioner that cuts every shard, the last one too, to seg_length
split_tags_no_remainder(tags, id, n) ==
    LET seg_length == Len(tags) \div n
        start_idx == id * seg_length
    IN  Slice(tags, start_idx, start_idx + seg_length)

\* split_tags with WORKER_ID = id and TOTAL_WORKERS = n over the list tags
split_tags(tags, id, n) ==
    LET total == Len(tags)
        seg_length == total \div n
        start_idx == id * seg_length
    IN  IF id = n - 1
        THEN Slice(tags, start_idx, total)
        ELSE Slice(tags, start_idx, start_idx + seg_length)

\* get_fraction(df, i, n) over the rows df
get_fraction(df, i, n) ==
    LET total == Len(df)
        chunk == total \div n
        first == i * chunk
        end == IF i < n - 1 THEN (i + 1) * chunk ELSE total
    IN  Slice(df, first, end)

\* Python's a // b for b # 0: the floor of the quotient
FloorDiv(a, b) == IF b > 0 THEN a \div b ELSE (-a) \div (-b)

\* Python's lst[a:b] and df.iloc[a:b] for any integers a, b: a negative
\* bound counts from the end, and every bound is clipped to 0..len
PySlice(lst, a, b) ==
    LET norm(x) == IF x < 0 THEN (IF Len(lst) + x < 0 THEN 0 ELSE Len(lst) + x)
                   ELSE Min(x, Len(lst))
    IN  IF norm(b) <= norm(a) THEN << >> ELSE SubSeq(lst, norm(a) + 1, norm(b))

NoCall == [kind |-> "none", val |-> << >>]
Returned(slice) == [kind |-> "slice", val |-> slice]
Failed(error) == [kind |-> error, val |-> << >>]

\* split_tags with WORKER_ID = id and TOTAL_WORKERS = n, its assert included
split_tags_call(tags, id, n) ==
    IF ~(0 <= id /\ id < n) THEN Failed("AssertionError")
    ELSE Returned(split_tags(tags, id, n))

\* get_fraction(df, i, n) for any integers i, n
get_fraction_call(df, i, n) ==
    IF n = 0 THEN Failed("ZeroDivisionError")
    ELSE LET total == Len(df)
             chunk == FloorDiv(total, n)
             first == i * chunk
             end == IF i < n - 1 THEN (i + 1) * chunk ELSE total
         IN  Returned(PySlice(df, first, end))

PartInit ==
    /\ p_tags \in {Ids(1, len) : len \in 0..MaxListLen}
    /\ p_n \in 1..MaxShards
    /\ p_split = << >>
    /\ p_frac = << >>
    /\ p_call = [i |-> 0, n |-> 1, split |-> NoCall, frac |-> NoCall]

\* both functions called once with a shard index and a shard count of any sign
PartCall ==
    /\ p_call.split.kind = "none"
    /\ \E i \in -1..MaxShards, n \in -1..MaxShards :
          p_call' = [i |-> i, n |-> n,
                     split |-> split_tags_call(p_tags, i, n),
                     frac  |-> get_fraction_call(p_tags, i, n)]
    /\ UNCHANGED <<p_tags, p_n, p_split, p_frac>>

\* split_tags run by the instance with the next shard index
PartSplit ==
    /\ Len(p_split) < p_n
    /\ p_split' = Append(p_split, split_tags(p_tags, Len(p_split), p_n))
    /\ UNCHANGED <<p_tags, p_n, p_frac, p_call>>

\* get_fraction run by the instance with the next shard index
PartFraction ==
    /\ Len(p_frac) < p_n
    /\ p_frac' = Append(p_frac, get_fraction(p_tags, Len(p_frac), p_n))
    /\ UNCHANGED <<p_tags, p_n, p_split, p_call>>

(***************************************************************************)
(* Checkpoint Resolver.                                                     *)
(***************************************************************************)
HeaderLine == <<0, 0>>

\* tail(path): the last line of the file, None (here << >>) for an empty file
tail(lines) == IF lines = << >> THEN << >> ELSE lines[Len(lines)]

\* a resolver that resumes AT the last persisted identifier, not after it
reach_current_at(tags, present, lines) ==
    IF present /\ tail(lines) # << >> /\ Index(tags, tail(lines)[1]) # 0
    THEN Slice(tags, Index(tags, tail(lines)[1]) - 1, Len(tags))
    ELSE tags

\* reach_current(replay_tags) reading the output file (present, lines);
\* final_id is the first comma-separated field of the last line
reach_current(tags, present, lines) ==
    IF present
    THEN LET last_line == tail(lines)
         IN  IF last_line # << >>
             THEN LET final_id == last_line[1]
                      idx == Index(tags, final_id)
                  IN  IF idx # 0
                      THEN Slice(tags, idx, Len(tags))
                      ELSE tags
             ELSE tags
    ELSE tags

\* the rows of units tags, one row each
RowsOf(tags) == [i \in 1..Len(tags) |-> <<tags[i], 1>>]

ResumeFiles ==
    {<< >>} \cup
    {<<HeaderLine>> \o RowsOf(ts) :
        ts \in UNION {[1..len -> 1..MaxResumeTag] : len \in 0..MaxFileRows}}

ResumeInit ==
    /\ r_shard \in {Ids(a, b) : a \in 1..MaxResumeTag, b \in 0..MaxResumeTag}
    /\ r_exists \in BOOLEAN
    /\ r_file \in ResumeFiles
    /\ r_exists = FALSE => r_file = << >>
    /\ r_pc = "ready"
    /\ r_out = << >>

Resume ==
    /\ r_pc = "ready"
    /\ r_out' = reach_current(r_shard, r_exists, r_file)
    /\ r_pc' = "done"
    /\ UNCHANGED <<r_shard, r_exists, r_file>>

(***************************************************************************)
(* Paired-sequence reconciler: parse_replay_html.                           *)
(* A time attribute (a string of digits) is the pair <<value, zeros>>: the  *)
(* number int() gives and the count of leading zeros, so "2" is <<2, 0>> and *)
(* "02" is <<2, 1>>: equal as numbers, different as strings.  An image path *)
(* is its sequence of tokens.                                               *)
(***************************************************************************)
TimeStrs == {<<1, 0>>, <<2, 0>>, <<2, 1>>}

\* int(x["time"])
IntOf(t) == t[1]

\* the values the attributes of the k-th element of the document take
CardName(k) == <<"knight", "giant", "archer", "wizard", "golem", "miner">>[k]
AbilityName(k) == <<"dash", "heal", "rage", "clone", "cloak", "guard">>[k]
CoordX(k) == <<"x1", "x2", "x3", "x4", "x5", "x6">>[k]
CoordY(k) == <<"y1", "y2", "y3", "y4", "y5", "y6">>[k]
ImageSrc(k, ab) ==
    IF ab = "1" THEN <<"cdn/", "ability-", AbilityName(k), ".png">>
                ELSE <<"cdn/", CardName(k), ".png">>

\* lines 61-70: one card event per img.replay_card, in document order
CardEvents(choice) ==
    [k \in 1..Len(choice) |->
        [card_name |-> CardName(k),
         image_src |-> ImageSrc(k, choice[k][2]),
         side      |-> IF k % 2 = 1 THEN "blue" ELSE "red",
         time      |-> choice[k][1],
         isAbility |-> choice[k][2]]]

\* lines 74-82: one placement event per marker, in document order
PlacementEvents(choice) ==
    [k \in 1..Len(choice) |->
        [x |-> CoordX(k), y |-> CoordY(k), time |-> choice[k]]]

\* s.split(marker)[-1]: the tokens behind the last marker, s itself without one
AfterLast(toks, marker) ==
    IF \E i \in 1..Len(toks) : toks[i] = marker
    THEN LET i == CHOOSE j \in 1..Len(toks) :
                     /\ toks[j] = marker
                     /\ \A m \in (j + 1)..Len(toks) : toks[m] # marker
         IN  SubSeq(toks, i + 1, Len(toks))
    ELSE toks

\* s.split(marker)[0]: the tokens before the first marker, s itself without one
BeforeFirst(toks, marker) ==
    IF Index(toks, marker) # 0 THEN SubSeq(toks, 1, Index(toks, marker) - 1) ELSE toks

\* the stable insertion of event e by int(time) into the sorted list lst
RECURSIVE InsertByTime(_, _)
InsertByTime(lst, e) ==
    IF lst = << >> THEN <<e>>
    ELSE IF IntOf(e.time) < IntOf(Head(lst).time)
         THEN <<e>> \o lst
         ELSE <<Head(lst)>> \o InsertByTime(Tail(lst), e)

\* a parser that pairs the card events in document order
sorted_by_time_none(events) == events

\* line 72: sorted(card_events, key=lambda x: int(x["time"])), a stable sort
RECURSIVE sorted_by_time(_)
sorted_by_time(events) ==
    IF events = << >> THEN << >>
    ELSE InsertByTime(sorted_by_time(SubSeq(events, 1, Len(events) - 1)),
                      events[Len(events)])

\* a length check that only notices missing placements
length_mismatch_short(ces, pes) == Len(ces) > Len(pes)

\* line 84: len(card_events) != len(placement_events)
length_mismatch(ces, pes) == Len(ces) # Len(pes)

\* a time check that compares the numbers, not the attribute strings
time_mismatch_numeric(ce, pe) == IntOf(ce.time) # IntOf(pe.time)

\* line 95: ce["time"] != pe["time"], a comparison of strings
time_mismatch(ce, pe) == ce.time # pe.time

\* a merge that copies the coordinates whatever the discriminator
MergedRow_keeps_coords(ce, pe, rtag) ==
    [replay_tag |-> rtag,
     side       |-> ce.side,
     time       |-> ce.time,
     isAbility  |-> ce.isAbility,
     card_name  |-> IF ce.isAbility = "1"
                    THEN <<"ability-">>
                         \o BeforeFirst(AfterLast(ce.image_src, "ability-"), ".png")
                    ELSE <<ce.card_name>>,
     x          |-> pe.x,
     y          |-> pe.y]

\* lines 101-117: the merged row of one index
MergedRow(ce, pe, rtag) ==
    [replay_tag |-> rtag,
     side       |-> ce.side,
     time       |-> ce.time,
     isAbility  |-> ce.isAbility,
     card_name  |-> IF ce.isAbility = "1"
                    THEN <<"ability-">>
                         \o BeforeFirst(AfterLast(ce.image_src, "ability-"), ".png")
                    ELSE <<ce.card_name>>,
     x          |-> IF ce.isAbility = "1" THEN "None" ELSE pe.x,
     y          |-> IF ce.isAbility = "1" THEN "None" ELSE pe.y]

\* a raise: the call returns nothing
Raised(kind, what, index) ==
    [kind |-> kind, what |-> what, index |-> index, events |-> << >>]

\* lines 90-119: the loop over the indices, from index i (1-based) on, events
\* being the rows appended so far; the index of the error message is 0-based
RECURSIVE MergeFrom(_, _, _, _, _)
MergeFrom(ces, pes, rtag, i, events) ==
    IF i > Len(ces)
    THEN [kind |-> "events", what |-> "none", index |-> -1, events |-> events]
    ELSE IF i > Len(pes) THEN Raised("IndexError", "index", i - 1)
    ELSE IF time_mismatch(ces[i], pes[i]) THEN Raised("ValueError", "time", i - 1)
    ELSE MergeFrom(ces, pes, rtag, i + 1,
                   Append(events, MergedRow(ces[i], pes[i], rtag)))

\* parse_replay_html(html, replay_tag) for the card and placement elements of html
parse_replay_html(cards, places, rtag) ==
    LET card_events == sorted_by_time(cards)
        placement_events == places
    IN  IF length_mismatch(card_events, placement_events)
        THEN Raised("ValueError", "length", -1)
        ELSE MergeFrom(card_events, placement_events, rtag, 1, << >>)

ParseIdle ==
    /\ q_cards = << >> /\ q_places = << >> /\ q_tag = 1
    /\ q_pc = "done" /\ q_out = Raised("none", "none", -1)

ParseInit ==
    /\ q_cards \in {CardEvents(c) :
           c \in UNION {[1..len -> TimeStrs \X {"0", "1"}] : len \in 0..MaxEvents}}
    /\ q_places \in {PlacementEvents(c) :
           c \in UNION {[1..len -> TimeStrs] : len \in 0..MaxEvents}}
    /\ q_tag = 1
    /\ q_pc = "ready"
    /\ q_out = Raised("none", "none", -1)

Parse ==
    /\ q_pc = "ready"
    /\ q_out' = parse_replay_html(q_cards, q_places, q_tag)
    /\ q_pc' = "done"
    /\ UNCHANGED <<q_cards, q_places, q_tag>>

(***************************************************************************)
(* Round-robin distribution: split_for_workers of multiwindow.py.           *)
(***************************************************************************)
\* a distribution that puts every id into the first bucket
bucket_of_first(idx, n) == 0

\* line 229: idx % n_workers (0-based bucket of the 0-based position idx)
bucket_of(idx, n) == idx % n

\* line 226: n_workers = min(max_workers, len(ids))
n_workers(max_workers, ids) == Min(max_workers, Len(ids))

BucketsIdle ==
    /\ s_ids = << >> /\ s_max = 1 /\ s_pc = "done" /\ s_idx = 0 /\ s_buckets = << >>

BucketsInit ==
    /\ s_ids \in {Ids(1, len) : len \in 0..MaxIds}
    /\ s_max \in 1..MaxPages
    /\ s_pc = "call"
    /\ s_idx = 0
    /\ s_buckets = << >>

\* lines 226-227: the empty buckets
BucketsCreate ==
    /\ s_pc = "call"
    /\ s_buckets' = [b \in 1..n_workers(s_max, s_ids) |-> << >>]
    /\ s_pc' = "loop"
    /\ UNCHANGED <<s_ids, s_max, s_idx>>

\* lines 228-229: one iteration of the loop over enumerate(ids)
BucketsAppend ==
    /\ s_pc = "loop"
    /\ s_idx < Len(s_ids)
    /\ s_buckets' = [s_buckets EXCEPT
                        ![bucket_of(s_idx, Len(s_buckets)) + 1] =
                            Append(@, s_ids[s_idx + 1])]
    /\ s_idx' = s_idx + 1
    /\ UNCHANGED <<s_ids, s_max, s_pc>>

\* line 230: return buckets
BucketsReturn ==
    /\ s_pc = "loop"
    /\ s_idx >= Len(s_ids)
    /\ s_pc' = "done"
    /\ UNCHANGED <<s_ids, s_max, s_idx, s_buckets>>

(***************************************************************************)
(* Chunk files: run of multiwindow.py and run of playwright_testing.py.    *)
(* A player is its 0-based position in player_ids; a chunk file is the set *)
(* of positions it holds rows of.                                          *)
(***************************************************************************)
Positions == 0..(NumPlayers - 1)
ChunkNos == 1..(NumPlayers + 1)

\* a file that does not exist
NoFile == {-1}

NoFiles == [k \in ChunkNos |-> NoFile]

\* the number of chunk files instead of the largest chunk number
find_biggest_chunk_count(files) ==
    Cardinality({k \in ChunkNos : files[k] # NoFile})

\* find_biggest_chunk(folder): the largest k with a file battles_chunk_k.csv,
\* 0 without one
find_biggest_chunk(files) ==
    LET nums == {k \in ChunkNos : files[k] # NoFile}
    IN  IF nums = {} THEN 0 ELSE CHOOSE k \in nums : \A j \in nums : j <= k

\* player_ids[start:start + size] as positions
chunk_ids(from, size) == {p \in Positions : from <= p /\ p < from + size}

ChunksIdle ==
    /\ c_pc = "done" /\ c_files = NoFiles /\ c_cwd = NoFiles /\ c_base = 0
    /\ c_index = 0 /\ c_start = 0 /\ c_data = {} /\ c_count = 0
    /\ c_done = {} /\ c_over = FALSE /\ c_runs = 0

\* an empty chunk directory, run not yet started
ChunksInit ==
    /\ c_pc = "start" /\ c_files = NoFiles /\ c_cwd = NoFiles /\ c_base = 0
    /\ c_index = 0 /\ c_start = 0 /\ c_data = {} /\ c_count = 0
    /\ c_done = {} /\ c_over = FALSE /\ c_runs = 1

\* multiwindow.run, lines 245-268: up to the loop head
MwStart ==
    /\ c_pc = "start"
    /\ LET number_of_files == find_biggest_chunk(c_files)
       IN  /\ c_base' = number_of_files
           /\ c_index' = number_of_files + 1
           /\ c_start' = number_of_files * CHUNK_SIZE
    /\ c_pc' = "loop"
    /\ UNCHANGED <<c_files, c_cwd, c_data, c_count, c_done, c_over, c_runs>>

\* lines 269-288: the workers scrape the players of the chunk; a player yields
\* rows or none (scrape_player_on_page returns [] on an error)
MwGather ==
    /\ c_pc = "loop"
    /\ c_start < NumPlayers
    /\ \E battle_rows \in SUBSET chunk_ids(c_start, CHUNK_SIZE) :
          c_data' = battle_rows
    /\ c_done' = c_done \cup chunk_ids(c_start, CHUNK_SIZE)
    /\ c_pc' = "save"
    /\ UNCHANGED <<c_files, c_cwd, c_base, c_index, c_start, c_count, c_over,
                   c_runs>>

\* lines 290-297: the chunk file is written if there are rows; the index and
\* the loop position advance in both cases
MwSave ==
    /\ c_pc = "save"
    /\ IF c_data # {}
       THEN /\ c_files' = [c_files EXCEPT ![c_index] = c_data]
            /\ c_over' = (c_over \/ c_files[c_index] # NoFile)
       ELSE UNCHANGED <<c_files, c_over>>
    /\ c_data' = {}
    /\ c_index' = c_index + 1
    /\ c_start' = c_start + CHUNK_SIZE
    /\ c_pc' = "loop"
    /\ UNCHANGED <<c_cwd, c_base, c_count, c_done, c_runs>>

\* lines 268 and 299: range(...) is exhausted
MwFinish ==
    /\ c_pc = "loop"
    /\ c_start >= NumPlayers
    /\ c_pc' = "done"
    /\ UNCHANGED <<c_files, c_cwd, c_base, c_index, c_start, c_data, c_count,
                   c_done, c_over, c_runs>>

\* the process ends (a crash, a kill, or run returned) and run is started
\* again on the same directory; the locals are gone
ChunkRestart ==
    /\ c_pc # "start"
    /\ c_runs < MaxStarts
    /\ c_runs' = c_runs + 1
    /\ c_pc' = "start"
    /\ c_base' = 0 /\ c_index' = 0 /\ c_start' = 0 /\ c_data' = {} /\ c_count' = 0
    /\ UNCHANGED <<c_files, c_cwd, c_done, c_over>>

\* playwright_testing.run, lines 146-170: up to the first player that is not
\* skipped (the loop continues past every idx < number_of_players_scanned)
PtStart ==
    /\ c_pc = "start"
    /\ LET number_of_players_scanned ==
               find_biggest_chunk(c_files) * SCANNED_PER_CHUNK
       IN  /\ c_base' = number_of_players_scanned
           /\ c_start' = Min(number_of_players_scanned, NumPlayers)
    /\ c_index' = 1
    /\ c_count' = 0
    /\ c_data' = {}
    /\ c_pc' = "loop"
    /\ UNCHANGED <<c_files, c_cwd, c_done, c_over, c_runs>>

\* lines 168-198: one iteration for the player at idx
PtPlayer ==
    /\ c_pc = "loop"
    /\ c_start < NumPlayers
    /\ c_start' = c_start + 1
    /\ c_done' = c_done \cup {c_start}
    /\ \/ \* page.goto raises: the id goes to error.txt, continue
          UNCHANGED <<c_files, c_index, c_data, c_count, c_over>>
       \/ \E has_rows \in BOOLEAN :
             LET battle_data == IF has_rows THEN c_data \cup {c_start} ELSE c_data
                 processed_count == c_count + 1
             IN  /\ c_count' = processed_count
                 /\ IF processed_count % PT_CHUNK_SIZE = 0
                    THEN /\ c_files' = [c_files EXCEPT ![c_index] = battle_data]
                         /\ c_over' = (c_over \/ c_files[c_index] # NoFile)
                         /\ c_data' = {}
                         /\ c_index' = c_index + 1
                    ELSE /\ c_data' = battle_data
                         /\ UNCHANGED <<c_files, c_index, c_over>>
    /\ UNCHANGED <<c_cwd, c_base, c_pc, c_runs>>

\* lines 200-206: the remaining rows go to battles_chunk_k.csv in the working
\* directory, not in battle_chunks
PtFinish ==
    /\ c_pc = "loop"
    /\ c_start >= NumPlayers
    /\ IF c_data # {}
       THEN c_cwd' = [c_cwd EXCEPT ![c_index] = c_data]
       ELSE UNCHANGED c_cwd
    /\ c_pc' = "done"
    /\ UNCHANGED <<c_files, c_base, c_index, c_start, c_data, c_count, c_done,
                   c_over, c_runs>>

(***************************************************************************)
(* Retry policy: fetch_clan_members and its caller build_player_dataset of  *)
(* notScrape.py.  Clans are 1..MaxClans; a debug line is <<clan_tag, error>>*)
(* (the country column is copied from the clan's row and left out), the     *)
(* header line of the debug CSV is <<0, "error">>.                          *)
(***************************************************************************)
\* what one requests.get and the handling of its response (lines 174-182) give:
\*   "ok"          a 2xx response with a JSON object: the members are returned
\*   "network"     requests.get raises (connection error, timeout)
\*   "http429_5xx" status 429 or 5xx: HTTPError raised at line 177
\*   "http4xx"     another 4xx status: raise_for_status raises HTTPError
\*   "badjson"     resp.json() raises ValueError
\*   "unexpected"  an exception that is no RequestException and no ValueError
Responses == {"ok", "network", "http429_5xx", "http4xx", "badjson", "unexpected"}

\* the failures the retry policy calls transient
Transient == {"network", "http429_5xx"}

\* line 183: except (requests.RequestException, ValueError)
retry_caught(resp) == resp \in {"network", "http429_5xx", "http4xx", "badjson"}

\* a loop that stops one attempt early: range(1, retries)
more_attempts_short(attempt) == attempt + 1 < retries

\* line 172, for attempt in range(1, retries + 1): there is a next attempt
more_attempts(attempt) == attempt + 1 <= retries

DebugHeader == <<0, "error">>

\* log_failed_clan: the header if the file did not exist, then one row
log_failed_clan(lines, present, clan, msg) ==
    (IF present THEN lines ELSE <<DebugHeader>>) \o <<<<clan, msg>>>>

ClanInit ==
    /\ k_pc = "next"
    /\ k_idx = 0
    /\ k_attempt = 0
    /\ k_last_error = "none"
    /\ k_records = << >>
    /\ k_dbg_exists = FALSE
    /\ k_debug = << >>
    /\ k_hist = << >>
    /\ k_waits = << >>

\* build_player_dataset, lines 253-260, and fetch_clan_members, lines 167-172:
\* the next clan of the CSV, its first attempt
ClanBegin ==
    /\ k_pc = "next"
    /\ k_idx < MaxClans
    /\ k_idx' = k_idx + 1
    /\ k_attempt' = 1
    /\ k_last_error' = "none"
    /\ k_hist' = << >>
    /\ k_waits' = << >>
    /\ k_pc' = "request"
    /\ UNCHANGED <<k_records, k_dbg_exists, k_debug>>

\* lines 173-189 and 259-284: one request.  A success returns the members,
\* which go to records.  An error caught at line 183 sets last_error and the
\* wait.  Any other exception leaves fetch_clan_members at once and is logged
\* by build_player_dataset (lines 261-267).
ClanRequest ==
    /\ k_pc = "request"
    /\ \E resp \in Responses :
          /\ k_hist' = Append(k_hist, resp)
          /\ IF resp = "ok"
             THEN /\ k_records' = Append(k_records, k_idx)
                  /\ k_pc' = "next"
                  /\ UNCHANGED <<k_last_error, k_dbg_exists, k_debug>>
             ELSE IF retry_caught(resp)
             THEN /\ k_last_error' = resp
                  /\ k_pc' = "sleep"
                  /\ UNCHANGED <<k_records, k_dbg_exists, k_debug>>
             ELSE /\ k_debug' = log_failed_clan(k_debug, k_dbg_exists, k_idx, resp)
                  /\ k_dbg_exists' = TRUE
                  /\ k_pc' = "next"
                  /\ UNCHANGED <<k_records, k_last_error>>
    /\ UNCHANGED <<k_idx, k_attempt, k_waits>>

\* line 190, time.sleep(backoff ** attempt), then the next attempt; after the
\* last attempt last_error is raised (lines 193-194) and build_player_dataset
\* logs str(e) for the clan (lines 261-267)
ClanBackoff ==
    /\ k_pc = "sleep"
    /\ k_waits' = Append(k_waits, k_attempt)
    /\ IF more_attempts(k_attempt)
       THEN /\ k_attempt' = k_attempt + 1
            /\ k_pc' = "request"
            /\ UNCHANGED <<k_dbg_exists, k_debug>>
       ELSE /\ k_debug' = log_failed_clan(k_debug, k_dbg_exists, k_idx, k_last_error)
            /\ k_dbg_exists' = TRUE
            /\ k_pc' = "next"
            /\ UNCHANGED k_attempt
    /\ UNCHANGED <<k_idx, k_last_error, k_records, k_hist>>

\* lines 253 and 286-: the clan loop is exhausted
ClanFinish ==
    /\ k_pc = "next"
    /\ k_idx = MaxClans
    /\ k_pc' = "done"
    /\ UNCHANGED <<k_idx, k_attempt, k_last_error, k_records, k_dbg_exists, k_debug,
                   k_hist, k_waits>>

(***************************************************************************)
(* The pipeline: main and worker_task of scrape_no_restart.py.              *)
(***************************************************************************)
Workers == 0..(MAX_WORKERS - 1)

\* pd.read_csv(REPLAY_PATH)["replay_id"].tolist()
AllTags == Ids(1, NumTags)

\* positions at which a worker task has ended: returned, or ended by an exception
Terminated(w) == wpc[w] \in {"done", "raised"}

\* key in dict
HasKey(d, k) == \E i \in 1..Len(d) : d[i][1] = k

\* dict[k], for a key of the dict
Lookup(d, k) == d[CHOOSE i \in 1..Len(d) : d[i][1] = k][2]

\* dict[k] = v: a new key goes last, an old key keeps its place
DictSet(d, k, v) ==
    IF HasKey(d, k)
    THEN [i \in 1..Len(d) |-> IF d[i][1] = k THEN <<k, v>> ELSE d[i]]
    ELSE Append(d, <<k, v>>)

\* the rows of the DataFrame fetch_replay_with_page returns for unit t with n events
Frame(t, n) == [j \in 1..n |-> <<t, j>>]

\* a writer that takes the frames in the insertion (completion) order of results
batch_frames_by_completion(tags, res) ==
    [i \in 1..Len(res) |-> Frame(res[i][1], res[i][2])]

\* batch_frames = [results[tag] for tag in batch_tags if tag in results]
RECURSIVE batch_frames(_, _)
batch_frames(tags, res) ==
    IF tags = << >> THEN << >>
    ELSE IF HasKey(res, Head(tags))
         THEN <<Frame(Head(tags), Lookup(res, Head(tags)))>>
              \o batch_frames(Tail(tags), res)
         ELSE batch_frames(Tail(tags), res)

\* a batch cut that takes one unit of the next batch along
cut_batch_overlap(tags, first) == Slice(tags, first, first + BATCH_SIZE + 1)

\* line 338: replay_tags[start:start + BATCH_SIZE]
cut_batch(tags, first) == Slice(tags, first, first + BATCH_SIZE)

\* a queue.get() that leaves the item on the queue
after_get_peek(q) == q

\* the queue after queue.get() returned the item at its head
after_get(q) == Tail(q)

\* the value of a variable that is bound to no context object
NoContext == <<-1, 0>>

\* a browser that hands the same context object to every caller
new_context_shared(w, n) == <<0, 1>>

\* browser.new_context() returns a new object on every call: the object of
\* worker w's n + 1st call in the batch is named <<w, n + 1>>
new_context(w, n) == <<w, n + 1>>

\* an increment that is lost when the counter was already counted up
incr_lost(c) == IF c = 0 THEN 1 ELSE c

\* lines 230-231: ...["count"] += 1, with no await between read and write
incr(c) == c + 1

\* a main that writes whatever the batch gave
skip_write_never(res, frames) == FALSE

\* lines 382 and 393: if not results / if not batch_frames
skip_write(res, frames) == res = << >> \/ frames = << >>

\* what to_csv(OUTPUT_CSV, mode, header) leaves in the file
to_csv(lines, rows, first) ==
    IF first THEN <<HeaderLine>> \o rows ELSE lines \o rows

\* one sentinel fewer than there are workers
sentinels_one_short(n) == [i \in 1..(n - 1) |-> NoneItem]

\* lines 354-355: for _ in range(MAX_WORKERS): await queue.put(None)
sentinels(n) == [i \in 1..n |-> NoneItem]

\* a worker that puts the sentinel back after taking it
after_sentinel_requeue(q) == Append(Tail(q), NoneItem)

\* the queue after a worker took the sentinel at its head (task_done, break)
after_sentinel(q) == Tail(q)

\* a recycle test that lets one more unit through
recycle_due_late(n) == n > RecycleBudget

\* if local_count >= 10
recycle_due(n) == n >= RecycleBudget

\* a barrier that does not wait for the worker tasks
workers_joined_nowait(pcs) == TRUE

\* for w in workers: await w   (every task has ended)
workers_joined(pcs) == \A w \in Workers : pcs[w] \in {"done", "raised"}

\* the failure log of the replay pipeline: main makes one write per batch, to
\* OUTPUT_CSV (line 401), and worker_task only prints an error (line 227);
\* no statement writes a record for a failed unit
FailureLog == << >>

\* main, line 308: the shard of this process instance
Shard == split_tags(AllTags, WORKER_ID, TOTAL_WORKERS)

\* the output holds at least one row of unit t
HasRows(t) == exists /\ \E i \in 1..Len(file) : file[i][1] = t

\* the first field of the last line of the output, 0 without one
LastId == IF exists /\ file # << >> THEN file[Len(file)][1] ELSE 0

\* number of batches main cuts from n remaining units (range(0, n, BATCH_SIZE))
NumBatches(n) == (n + BATCH_SIZE - 1) \div BATCH_SIZE

PipeInit ==
    /\ run = 1
    /\ mainpc = "start"
    /\ exists = FALSE
    /\ file = << >>
    /\ replay_tags = << >>
    /\ total_tags = 0
    /\ start = 0
    /\ batch_tags = << >>
    /\ queue = << >>
    /\ unfinished = 0
    /\ results = << >>
    /\ first_write = TRUE
    /\ total_rows_written = 0
    /\ overall_completed = 0
    /\ batch_completed = 0
    /\ wpc = [w \in Workers |-> "none"]
    /\ tag = [w \in Workers |-> NoneItem]
    /\ local_count = [w \in Workers |-> 0]
    /\ context = [w \in Workers |-> "none"]
    /\ page = [w \in Workers |-> "none"]
    /\ raising = [w \in Workers |-> FALSE]
    /\ unbound_ctx = [w \in Workers |-> 0]
    /\ sess_units = [w \in Workers |-> 0]
    /\ recycled = [w \in Workers |-> 0]
    /\ saw_sentinel = [w \in Workers |-> FALSE]
    /\ written = << >>
    /\ nwrites = 0
    /\ batch_no = 0
    /\ settled = 0
    /\ prev_completed = FALSE
    /\ prev_last_ok = FALSE
    /\ failed = {}
    /\ sess_invalid = [w \in Workers |-> FALSE]
    /\ ctx_id = [w \in Workers |-> NoContext]
    /\ ctx_seq = [w \in Workers |-> 0]
    /\ batches = << >>
    /\ enq = [t \in 1..NumTags |-> 0]
    /\ deq = [t \in 1..NumTags |-> 0]
    /\ gets = [w \in Workers |-> 0]
    /\ dones = [w \in Workers |-> 0]
    /\ top_rows = 0

\* main, lines 308-335: the shard, the resume offset, the run's counters
MainStart ==
    /\ UNCHANGED track_vars
    /\ mainpc = "start"
    /\ replay_tags' = reach_current(split_tags(AllTags, WORKER_ID, TOTAL_WORKERS),
                                    exists, file)
    /\ total_tags' = Len(replay_tags')
    /\ first_write' = TRUE
    /\ total_rows_written' = 0
    /\ overall_completed' = 0
    /\ start' = 0
    /\ mainpc' = "loop"
    /\ UNCHANGED <<run, file_vars, batch_tags, queue_vars, results, batch_completed,
                   worker_vars, hist_vars>>

\* main, lines 337-373: the next batch is cut, enqueued with MAX_WORKERS sentinels
\* behind it, and one task per worker is created
MainEnqueue ==
    /\ mainpc = "loop"
    /\ start < total_tags
    /\ batch_tags' = cut_batch(replay_tags, start)
    /\ batches' = Append(batches, batch_tags')
    /\ enq' = [t \in 1..NumTags |->
                 enq[t] + Cardinality({i \in 1..Len(batch_tags') : batch_tags'[i] = t})]
    /\ ctx_id' = [w \in Workers |-> NoContext]
    /\ ctx_seq' = [w \in Workers |-> 0]
    /\ gets' = [w \in Workers |-> 0]
    /\ dones' = [w \in Workers |-> 0]
    /\ UNCHANGED <<deq, top_rows>>
    /\ queue' = batch_tags' \o sentinels(MAX_WORKERS)
    /\ unfinished' = Len(queue')
    /\ results' = << >>
    /\ batch_completed' = 0
    /\ wpc' = [w \in Workers |-> "create"]
    /\ tag' = [w \in Workers |-> NoneItem]
    /\ local_count' = [w \in Workers |-> 0]
    /\ context' = [w \in Workers |-> "none"]
    /\ page' = [w \in Workers |-> "none"]
    /\ raising' = [w \in Workers |-> FALSE]
    /\ unbound_ctx' = [w \in Workers |-> 0]
    /\ sess_units' = [w \in Workers |-> 0]
    /\ recycled' = [w \in Workers |-> 0]
    /\ saw_sentinel' = [w \in Workers |-> FALSE]
    /\ written' = << >>
    /\ nwrites' = 0
    /\ batch_no' = batch_no + 1
    /\ failed' = {}
    /\ sess_invalid' = [w \in Workers |-> FALSE]
    /\ mainpc' = "join"
    /\ UNCHANGED <<run, file_vars, replay_tags, total_tags, start, first_write,
                   total_rows_written, overall_completed, settled, prev_completed,
                   prev_last_ok>>

\* main, line 376: await queue.join() returns once every item was task_done
MainJoin ==
    /\ UNCHANGED track_vars
    /\ mainpc = "join"
    /\ unfinished = 0
    /\ mainpc' = "await"
    /\ UNCHANGED <<run, file_vars, main_vars, queue_vars, results, count_vars,
                   worker_vars, hist_vars>>

\* main, lines 379-380: await w re-raises the exception of a task that ended by one
MainAwaitWorkers ==
    /\ UNCHANGED track_vars
    /\ mainpc = "await"
    /\ workers_joined(wpc)
    /\ mainpc' = IF \E w \in Workers : wpc[w] = "raised" THEN "crashed" ELSE "aggregate"
    /\ UNCHANGED <<run, file_vars, main_vars, queue_vars, results, count_vars,
                   worker_vars, hist_vars>>

\* main, lines 382-384 and 393-395: nothing succeeded, no write, next batch
MainSkip ==
    /\ UNCHANGED track_vars
    /\ mainpc = "aggregate"
    /\ skip_write(results, batch_frames(batch_tags, results))
    /\ start' = start + BATCH_SIZE
    /\ settled' = settled + 1
    /\ mainpc' = "loop"
    /\ UNCHANGED <<run, file_vars, replay_tags, total_tags, batch_tags, first_write,
                   total_rows_written, queue_vars, results, count_vars, worker_vars,
                   unbound_ctx, sess_units, recycled, saw_sentinel, written, nwrites,
                   batch_no, prev_completed, prev_last_ok, failed, sess_invalid>>

\* main, lines 386-403: the batch's frames in batch order, one to_csv call
MainWrite ==
    /\ UNCHANGED track_vars
    /\ mainpc = "aggregate"
    /\ ~skip_write(results, batch_frames(batch_tags, results))
    /\ LET combined_batch == Flatten(batch_frames(batch_tags, results))
       IN  /\ file' = to_csv(file, combined_batch, first_write)
           /\ exists' = TRUE
           /\ total_rows_written' = total_rows_written + Len(combined_batch)
           /\ written' = combined_batch
    /\ first_write' = FALSE
    /\ nwrites' = nwrites + 1
    /\ start' = start + BATCH_SIZE
    /\ settled' = settled + 1
    /\ mainpc' = "loop"
    /\ UNCHANGED <<run, replay_tags, total_tags, batch_tags, queue_vars, results,
                   count_vars, worker_vars, unbound_ctx, sess_units, recycled,
                   saw_sentinel, batch_no, prev_completed, prev_last_ok, failed,
                   sess_invalid>>

\* main, lines 337 and 410-415: the batch loop is exhausted
MainFinish ==
    /\ UNCHANGED track_vars
    /\ mainpc = "loop"
    /\ start >= total_tags
    /\ mainpc' = "done"
    /\ UNCHANGED <<run, file_vars, main_vars, queue_vars, results, count_vars,
                   worker_vars, hist_vars>>

(***************************************************************************)
(* worker_task.  Each action is one stretch of the coroutine between two    *)
(* awaits.  Closing a context or a page does not fail (destroySession).     *)
(***************************************************************************)
\* line 211 (at start) and lines 251-254 (recycling): create_stealth_context.
\* browser.new_context may raise; add_init_script may raise after the context
\* exists, and then no variable is bound to that context.  Binding context to
\* a new object drops the reference to the old one.
WorkerCreateContext(w) ==
    /\ UNCHANGED <<batches, enq, deq, gets, dones, top_rows>>
    /\ wpc[w] \in {"create", "rc_create"}
    /\ \/ /\ context' = [context EXCEPT ![w] = "open"]
          /\ ctx_id' = [ctx_id EXCEPT ![w] = new_context(w, ctx_seq[w])]
          /\ ctx_seq' = [ctx_seq EXCEPT ![w] = @ + 1]
          /\ unbound_ctx' = [unbound_ctx EXCEPT ![w] = IF context[w] = "open"
                                                       THEN @ + 1 ELSE @]
          /\ wpc' = [wpc EXCEPT ![w] = IF wpc[w] = "create" THEN "newpage"
                                                            ELSE "rc_newpage"]
          /\ UNCHANGED raising
       \/ /\ wpc' = [wpc EXCEPT ![w] = IF wpc[w] = "create" THEN "raised"
                                                            ELSE "fin_page"]
          /\ raising' = [raising EXCEPT ![w] = TRUE]
          /\ UNCHANGED <<context, unbound_ctx, ctx_id, ctx_seq>>
       \/ /\ unbound_ctx' = [unbound_ctx EXCEPT ![w] = @ + 1]
          /\ wpc' = [wpc EXCEPT ![w] = IF wpc[w] = "create" THEN "raised"
                                                            ELSE "fin_page"]
          /\ raising' = [raising EXCEPT ![w] = TRUE]
          /\ ctx_seq' = [ctx_seq EXCEPT ![w] = @ + 1]
          /\ UNCHANGED <<context, ctx_id>>
    /\ UNCHANGED <<run, mainpc, file_vars, main_vars, queue_vars, results, count_vars,
                   tag, local_count, page, sess_units, recycled, saw_sentinel,
                   written, nwrites, batch_no, settled, prev_completed, prev_last_ok,
                   failed, sess_invalid>>

\* line 212 (at start, outside the try) and lines 255-256 (recycling, inside it):
\* context.new_page, which may raise
WorkerNewPage(w) ==
    /\ UNCHANGED track_vars
    /\ wpc[w] \in {"newpage", "rc_newpage"}
    /\ \/ /\ page' = [page EXCEPT ![w] = "open"]
          /\ sess_units' = [sess_units EXCEPT ![w] = 0]
          /\ sess_invalid' = [sess_invalid EXCEPT ![w] = FALSE]
          /\ local_count' = [local_count EXCEPT ![w] = 0]
          /\ recycled' = [recycled EXCEPT ![w] = IF wpc[w] = "rc_newpage"
                                                   THEN @ + 1 ELSE @]
          /\ wpc' = [wpc EXCEPT ![w] = "get"]
          /\ UNCHANGED raising
       \/ /\ wpc' = [wpc EXCEPT ![w] = IF wpc[w] = "newpage" THEN "raised"
                                                             ELSE "fin_page"]
          /\ raising' = [raising EXCEPT ![w] = TRUE]
          /\ UNCHANGED <<page, sess_units, sess_invalid, local_count, recycled>>
    /\ UNCHANGED <<run, mainpc, file_vars, main_vars, queue_vars, results, count_vars,
                   tag, context, unbound_ctx, saw_sentinel, written, nwrites,
                   batch_no, settled, prev_completed, prev_last_ok, failed>>

\* lines 217-221: queue.get(); a sentinel is marked done and ends the loop
WorkerGet(w) ==
    /\ wpc[w] = "get"
    /\ queue # << >>
    /\ tag' = [tag EXCEPT ![w] = Head(queue)]
    /\ gets' = [gets EXCEPT ![w] = @ + 1]
    /\ UNCHANGED <<ctx_id, ctx_seq, batches, enq, top_rows>>
    /\ IF Head(queue) = NoneItem
       THEN /\ queue' = after_sentinel(queue)
            /\ unfinished' = unfinished - 1
            /\ dones' = [dones EXCEPT ![w] = @ + 1]
            /\ UNCHANGED deq
            /\ saw_sentinel' = [saw_sentinel EXCEPT ![w] = TRUE]
            /\ wpc' = [wpc EXCEPT ![w] = "fin_page"]
       ELSE /\ queue' = after_get(queue)
            /\ deq' = [deq EXCEPT ![Head(queue)] = @ + 1]
            /\ wpc' = [wpc EXCEPT ![w] = "fetch"]
            /\ UNCHANGED <<unfinished, saw_sentinel, dones>>
    /\ UNCHANGED <<run, mainpc, file_vars, main_vars, results, count_vars,
                   local_count, context, page, raising, unbound_ctx, sess_units,
                   recycled, written, nwrites, batch_no, settled, prev_completed,
                   prev_last_ok, failed, sess_invalid>>

\* what one call of fetch_replay_with_page (lines 166-191) does: it returns a
\* frame of n rows, <<"ok", n>>, or raises: page.goto timed out or the network
\* failed ("transient"); the body is no JSON, or success is false, or html is
\* missing: a blocked or malformed response ("blocked"); parse_replay_html
\* found a length or time mismatch ("mismatch")
FetchOutcomes ==
    {<<"ok", n>> : n \in 0..MaxRows}
        \cup {<<"transient", 0>>, <<"blocked", 0>>, <<"mismatch", 0>>}

\* a handler that lets an error of the extractor through
caught_only_ok(out) == out[1] = "ok"

\* line 226, except Exception: every error of the extractor is caught
caught(out) == TRUE

\* line 243: local_count += 1, after a success and after a caught error alike
next_count(n, out) == n + 1

\* lines 223-247: one call of fetch_replay_with_page, no second call for the
\* same unit; its frame goes to results, its error is only printed (line 227);
\* then the counters, local_count, task_done and the recycle test
WorkerFetch(w) ==
    /\ UNCHANGED <<ctx_id, ctx_seq, batches, enq, deq, gets>>
    /\ wpc[w] = "fetch"
    /\ \E out \in FetchOutcomes :
          IF out[1] = "ok" \/ caught(out)
          THEN /\ results' = IF out[1] = "ok" THEN DictSet(results, tag[w], out[2])
                                              ELSE results
               /\ failed' = IF out[1] = "ok" THEN failed
                                             ELSE failed \cup {<<tag[w], out[1], 1>>}
               /\ sess_invalid' = [sess_invalid EXCEPT
                                      ![w] = @ \/ out[1] = "blocked"]
               /\ top_rows' = IF out[1] = "ok" /\ out[2] >= 1
                                  /\ Index(Shard, tag[w]) > top_rows
                               THEN Index(Shard, tag[w]) ELSE top_rows
               /\ dones' = [dones EXCEPT ![w] = @ + 1]
               /\ batch_completed' = incr(batch_completed)
               /\ overall_completed' = incr(overall_completed)
               /\ local_count' = [local_count EXCEPT ![w] = next_count(@, out)]
               /\ sess_units' = [sess_units EXCEPT ![w] = @ + 1]
               /\ unfinished' = unfinished - 1
               /\ wpc' = [wpc EXCEPT ![w] = IF recycle_due(local_count'[w])
                                            THEN "rc_page" ELSE "get"]
               /\ UNCHANGED raising
          ELSE /\ raising' = [raising EXCEPT ![w] = TRUE]
               /\ wpc' = [wpc EXCEPT ![w] = "fin_page"]
               /\ failed' = failed \cup {<<tag[w], out[1], 1>>}
               /\ UNCHANGED <<results, sess_invalid, batch_completed,
                              overall_completed, local_count, sess_units, unfinished,
                              top_rows, dones>>
    /\ UNCHANGED <<run, mainpc, file_vars, main_vars, queue, tag, context, page,
                   unbound_ctx, recycled, saw_sentinel, written, nwrites,
                   batch_no, settled, prev_completed, prev_last_ok>>

\* line 249 (recycling) and lines 259-262 (finally): page.close()
WorkerClosePage(w) ==
    /\ UNCHANGED track_vars
    /\ wpc[w] \in {"rc_page", "fin_page"}
    /\ page' = [page EXCEPT ![w] = IF @ = "open" THEN "closed" ELSE @]
    /\ wpc' = [wpc EXCEPT ![w] = IF wpc[w] = "rc_page" THEN "rc_ctx" ELSE "fin_ctx"]
    /\ UNCHANGED <<run, mainpc, file_vars, main_vars, queue_vars, results, count_vars,
                   tag, local_count, context, raising, hist_vars>>

\* line 250 (recycling) and lines 263-267 (finally): context.close(); after the
\* finally block the task returns, or the propagating exception ends it
WorkerCloseContext(w) ==
    /\ UNCHANGED track_vars
    /\ wpc[w] \in {"rc_ctx", "fin_ctx"}
    /\ context' = [context EXCEPT ![w] = IF @ = "open" THEN "closed" ELSE @]
    /\ wpc' = [wpc EXCEPT ![w] = IF wpc[w] = "rc_ctx" THEN "rc_create"
                                 ELSE IF raising[w] THEN "raised" ELSE "done"]
    /\ UNCHANGED <<run, mainpc, file_vars, main_vars, queue_vars, results, count_vars,
                   tag, local_count, page, raising, hist_vars>>

(***************************************************************************)
(* Starting main again on the same output file.                             *)
(***************************************************************************)
\* the state of a fresh process, the output file kept
Restart(completed) ==
    /\ run < MaxRuns
    /\ run' = run + 1
    /\ mainpc' = "start"
    /\ replay_tags' = << >>
    /\ total_tags' = 0
    /\ start' = 0
    /\ batch_tags' = << >>
    /\ queue' = << >>
    /\ unfinished' = 0
    /\ results' = << >>
    /\ first_write' = TRUE
    /\ total_rows_written' = 0
    /\ overall_completed' = 0
    /\ batch_completed' = 0
    /\ wpc' = [w \in Workers |-> "none"]
    /\ tag' = [w \in Workers |-> NoneItem]
    /\ local_count' = [w \in Workers |-> 0]
    /\ context' = [w \in Workers |-> "none"]
    /\ page' = [w \in Workers |-> "none"]
    /\ raising' = [w \in Workers |-> FALSE]
    /\ unbound_ctx' = [w \in Workers |-> 0]
    /\ sess_units' = [w \in Workers |-> 0]
    /\ recycled' = [w \in Workers |-> 0]
    /\ saw_sentinel' = [w \in Workers |-> FALSE]
    /\ written' = << >>
    /\ nwrites' = 0
    /\ batch_no' = 0
    /\ settled' = 0
    /\ prev_completed' = completed
    /\ failed' = {}
    /\ sess_invalid' = [w \in Workers |-> FALSE]
    /\ ctx_id' = [w \in Workers |-> NoContext]
    /\ ctx_seq' = [w \in Workers |-> 0]
    /\ batches' = << >>
    /\ enq' = [t \in 1..NumTags |-> 0]
    /\ deq' = [t \in 1..NumTags |-> 0]
    /\ gets' = [w \in Workers |-> 0]
    /\ dones' = [w \in Workers |-> 0]
    /\ UNCHANGED top_rows
    /\ UNCHANGED file_vars

\* main has finished all batches and is run again with the same configuration
Rerun ==
    /\ mainpc = "done"
    /\ Restart(TRUE)
    /\ prev_last_ok' =
          LET shard == split_tags(AllTags, WORKER_ID, TOTAL_WORKERS)
          IN  /\ batch_no > 0
              /\ HasKey(results, shard[Len(shard)])
              /\ Lookup(results, shard[Len(shard)]) >= 1

\* the process is killed between two batches and main is started again
Crash ==
    /\ mainpc = "loop"
    /\ Restart(FALSE)
    /\ prev_last_ok' = FALSE

PipeNext ==
    \/ MainStart
    \/ MainEnqueue
    \/ MainJoin
    \/ MainAwaitWorkers
    \/ MainSkip
    \/ MainWrite
    \/ MainFinish
    \/ Rerun
    \/ Crash
    \/ \E w \in Workers :
          \/ WorkerCreateContext(w)
          \/ WorkerNewPage(w)
          \/ WorkerGet(w)
          \/ WorkerFetch(w)
          \/ WorkerClosePage(w)
          \/ WorkerCloseContext(w)

(***************************************************************************)
(* Specifications.                                                          *)
(***************************************************************************)
\* the values the variables of the partitioning, of the resume check and of
\* the clan loop keep in a specification that does not move them
PartIdle ==
    /\ p_tags = << >> /\ p_n = 1 /\ p_split = << >> /\ p_frac = << >>
    /\ p_call = [i |-> 0, n |-> 1, split |-> NoCall, frac |-> NoCall]

ResumeIdle ==
    /\ r_shard = << >> /\ r_exists = FALSE /\ r_file = << >>
    /\ r_pc = "done" /\ r_out = << >>

\* the pipeline; everything else stays in a fixed state
Init == PipeInit /\ PartIdle /\ ResumeIdle /\ ParseIdle /\ ClanInit /\ BucketsIdle /\ ChunksIdle

Next == PipeNext /\ UNCHANGED <<part_vars, resume_vars, parse_vars, clan_vars, bucket_vars, chunk_vars>>

Spec == Init /\ [][Next]_vars

\* split_tags and get_fraction applied to every shard index of every input
PartNext ==
    (PartSplit \/ PartFraction \/ PartCall) /\ UNCHANGED <<resume_vars, parse_vars, clan_vars, bucket_vars, chunk_vars, pipe_vars>>

InitPart == PartInit /\ PipeInit /\ ResumeIdle /\ ParseIdle /\ ClanInit /\ BucketsIdle /\ ChunksIdle

SpecPart == InitPart /\ [][PartNext]_vars

\* reach_current applied to every shard and output file
ResumeNext == Resume /\ UNCHANGED <<part_vars, parse_vars, clan_vars, bucket_vars, chunk_vars, pipe_vars>>

InitResume == ResumeInit /\ PipeInit /\ PartIdle /\ ParseIdle /\ ClanInit /\ BucketsIdle /\ ChunksIdle

SpecResume == InitResume /\ [][ResumeNext]_vars

\* build_player_dataset over MaxClans clans, every response to every request
ClanNext ==
    (ClanBegin \/ ClanRequest \/ ClanBackoff \/ ClanFinish)
        /\ UNCHANGED <<part_vars, resume_vars, parse_vars, bucket_vars, chunk_vars, pipe_vars>>

InitClan == ClanInit /\ PipeInit /\ PartIdle /\ ResumeIdle /\ ParseIdle /\ BucketsIdle /\ ChunksIdle

SpecClan == InitClan /\ [][ClanNext]_vars

\* parse_replay_html applied to every pair of event lists
ParseNext == Parse /\ UNCHANGED <<part_vars, resume_vars, clan_vars, bucket_vars, chunk_vars, pipe_vars>>

InitParse == ParseInit /\ PipeInit /\ PartIdle /\ ResumeIdle /\ ClanInit /\ BucketsIdle /\ ChunksIdle

SpecParse == InitParse /\ [][ParseNext]_vars

\* split_for_workers applied to every list of ids and every pool size
BucketsNext ==
    (BucketsCreate \/ BucketsAppend \/ BucketsReturn)
        /\ UNCHANGED <<part_vars, resume_vars, parse_vars, clan_vars, chunk_vars, pipe_vars>>

InitBuckets == BucketsInit /\ PipeInit /\ PartIdle /\ ResumeIdle /\ ParseIdle /\ ClanInit /\ ChunksIdle

SpecBuckets == InitBuckets /\ [][BucketsNext]_vars


\* multiwindow.run over starts, crashes and restarts on one chunk directory
ChunksNext ==
    (MwStart \/ MwGather \/ MwSave \/ MwFinish \/ ChunkRestart)
        /\ UNCHANGED <<part_vars, resume_vars, parse_vars, clan_vars, bucket_vars, pipe_vars>>

InitChunks == ChunksInit /\ PipeInit /\ PartIdle /\ ResumeIdle /\ ParseIdle /\ ClanInit /\ BucketsIdle

SpecChunks == InitChunks /\ [][ChunksNext]_vars

\* playwright_testing.run over starts, crashes and restarts on one directory
ScanNext ==
    (PtStart \/ PtPlayer \/ PtFinish \/ ChunkRestart)
        /\ UNCHANGED <<part_vars, resume_vars, parse_vars, clan_vars, bucket_vars, pipe_vars>>

InitScan == ChunksInit /\ PipeInit /\ PartIdle /\ ResumeIdle /\ ParseIdle /\ ClanInit /\ BucketsIdle

SpecScan == InitScan /\ [][ScanNext]_vars


\* One run of main in which no session construction fails, under the scheduling
\* of the asyncio event loop: a coroutine that can continue is continued.  An
\* await of the extractor ends (it returns or raises), so a worker at any of its
\* steps but a get on an empty queue is ready.
ConstructionSucceeds == \A w \in Workers : ~raising'[w]

MainStep ==
    \/ MainStart
    \/ MainEnqueue
    \/ MainJoin
    \/ MainAwaitWorkers
    \/ MainSkip
    \/ MainWrite
    \/ MainFinish

WorkerStep(w) ==
    \/ WorkerCreateContext(w)
    \/ WorkerNewPage(w)
    \/ WorkerGet(w)
    \/ WorkerFetch(w)
    \/ WorkerClosePage(w)
    \/ WorkerCloseContext(w)

FairMain ==
    MainStep /\ ConstructionSucceeds
        /\ UNCHANGED <<part_vars, resume_vars, parse_vars, clan_vars, bucket_vars, chunk_vars>>

FairWorker(w) ==
    WorkerStep(w) /\ ConstructionSucceeds
        /\ UNCHANGED <<part_vars, resume_vars, parse_vars, clan_vars, bucket_vars, chunk_vars>>

FairNext == FairMain \/ \E w \in Workers : FairWorker(w)

SpecFair ==
    /\ Init
    /\ [][FairNext]_vars
    /\ WF_vars(FairMain)
    /\ \A w \in Workers : WF_vars(FairWorker(w))


(***************************************************************************)
(* Properties.                                                              *)
(***************************************************************************)
\* number of sentinels in the queue
RECURSIVE NumSentinels(_)
NumSentinels(q) ==
    IF q = << >> THEN 0
    ELSE (IF Head(q) = NoneItem THEN 1 ELSE 0) + NumSentinels(Tail(q))

\* C1: the slices split_tags and get_fraction return for shard indices 0, 1, ...
\* are consecutive pieces of the input in original order (their concatenation
\* is a prefix of the input), and once all n shards are cut the concatenation
\* is the input itself: every identifier is in exactly one shard.
C1_ShardsPartitionInput ==
    /\ IsPrefix(Flatten(p_split), p_tags)
    /\ IsPrefix(Flatten(p_frac), p_tags)
    /\ Len(p_split) = p_n => Flatten(p_split) = p_tags
    /\ Len(p_frac) = p_n => Flatten(p_frac) = p_tags

\* all shards of a list whose length the shard count does not divide
C1_Witness ==
    /\ Len(p_split) = p_n
    /\ Len(p_frac) = p_n
    /\ p_n > 1
    /\ Len(p_tags) > p_n
    /\ Len(p_tags) % p_n # 0

\* C2: if the output exists and the identifier x of its last line occurs in the
\* shard at position k, reach_current returns the shard's elements after
\* position k; in every other case (no output, an empty output, x not in the
\* shard) it returns the shard unchanged.
C2_ResumeAfterLast ==
    r_pc = "done" =>
        IF /\ r_exists
           /\ r_file # << >>
           /\ \E k \in 1..Len(r_shard) : r_shard[k] = r_file[Len(r_file)][1]
        THEN \E k \in 1..Len(r_shard) :
                /\ r_shard[k] = r_file[Len(r_file)][1]
                /\ r_out = [i \in 1..(Len(r_shard) - k) |-> r_shard[k + i]]
        ELSE r_out = r_shard

\* output a,b,c with shard a,b,c,d,e gives d,e
C2_Witness ==
    /\ r_pc = "done"
    /\ r_exists
    /\ r_shard = <<1, 2, 3, 4, 5>>
    /\ r_file = <<HeaderLine, <<1, 1>>, <<2, 1>>, <<3, 1>>>>
    /\ r_out = <<4, 5>>

\* C3 as claimed: after a run of main that finished all batches, the next run
\* has no remaining work, processes no unit and appends no row.
C3_RerunProcessesNothing ==
    (prev_completed /\ mainpc # "start") =>
        /\ total_tags = 0
        /\ batch_no = 0
        /\ overall_completed = 0
        /\ total_rows_written = 0

\* C3 as amended: after a run of main that finished all batches and whose last
\* unit, the shard's last, succeeded with at least one row, the next run has no
\* remaining work, processes no unit and appends no row.
C3_RerunAfterLastUnitSucceeded ==
    (prev_completed /\ prev_last_ok /\ mainpc # "start") =>
        /\ total_tags = 0
        /\ batch_no = 0
        /\ overall_completed = 0
        /\ total_rows_written = 0

\* a second run, finished, after a complete run whose last unit succeeded
C3_Witness ==
    /\ prev_completed
    /\ prev_last_ok
    /\ mainpc = "done"
    /\ Len(file) > 1

\* C4: the output is append-only: once the file exists, every step leaves its
\* lines in place and only adds lines behind them (so the header is written by
\* the first write only and no persisted row is ever lost).
C4_OutputAppendOnly ==
    [][exists => (exists' /\ IsPrefix(file, file'))]_vars

\* C5: the rows of a batch's write are grouped by work unit in the order of
\* batch_tags: a row of unit u never comes after a row of a unit that follows
\* u in the batch, and the rows of one unit keep their order.
C5_WriteInBatchOrder ==
    \A i, j \in 1..Len(written) :
        i < j =>
            /\ Index(batch_tags, written[i][1]) # 0
            /\ Index(batch_tags, written[i][1]) <= Index(batch_tags, written[j][1])
            /\ written[i][1] = written[j][1] => written[i][2] < written[j][2]

\* a write of two units that completed in the reverse of the batch order
C5_Witness ==
    /\ nwrites = 1
    /\ Len(batch_tags) = 2
    /\ Len(results) = 2
    /\ results[1][1] = batch_tags[2]
    /\ results[1][2] >= 1
    /\ results[2][2] >= 1

\* C6: a batch is written at most once, and only when its queue is drained
\* (nothing queued, nothing unfinished) and every worker task has ended; while
\* a batch is with the workers it is the only batch not yet settled and nothing
\* of it is written, so batch N is written before batch N+1 is enqueued.
C6_BarrierBeforeWrite ==
    /\ nwrites <= 1
    /\ nwrites = 1 =>
          /\ queue = << >>
          /\ unfinished = 0
          /\ \A w \in Workers : Terminated(w)
    /\ mainpc \in {"join", "await", "aggregate"} =>
          /\ batch_no = settled + 1
          /\ nwrites = 0
    /\ mainpc \in {"loop", "done"} => batch_no = settled

\* the second batch of a run has been written
C6_Witness ==
    /\ nwrites = 1
    /\ batch_no = 2
    /\ settled = 2

\* C7: a failed session construction stops only its own worker: when every
\* worker task has ended and one of them ended by the construction error, main
\* is not left waiting at the barrier (queue.join has nothing unfinished).
C7_BarrierPassedAfterConstructionFailure ==
    (/\ mainpc = "join"
     /\ \E w \in Workers : wpc[w] = "raised"
     /\ \A w \in Workers : Terminated(w))
        => unfinished = 0

\* C8: a worker task that has ended holds no open context and no open page,
\* and has created no context that is still open.
C8_NoSessionLeak ==
    \A w \in Workers :
        Terminated(w) =>
            /\ context[w] # "open"
            /\ page[w] # "open"
            /\ unbound_ctx[w] = 0

\* C9 as claimed: the worker that takes a sentinel puts it back (the queue
\* holds as many sentinels after the step as before), and once the barrier is
\* passed every worker has ended after seeing a sentinel.
C9_SentinelReenqueued ==
    [][/\ \A w \in Workers :
             (saw_sentinel'[w] /\ ~saw_sentinel[w]) =>
                 NumSentinels(queue') = NumSentinels(queue)
       /\ mainpc' = "aggregate" =>
             \A w \in Workers : wpc'[w] = "done" /\ saw_sentinel'[w]]_vars

\* C9 as amended: a worker that takes a sentinel consumes it and dequeues
\* nothing afterwards; the MAX_WORKERS sentinels of a batch are each either
\* still queued or consumed by exactly one worker; a task that returned has
\* seen a sentinel; once the barrier is passed every worker has ended after
\* seeing a sentinel and the queue is empty.
C9_OneSentinelPerWorker ==
    batch_no > 0 =>
        /\ NumSentinels(queue) + Cardinality({w \in Workers : saw_sentinel[w]})
              = MAX_WORKERS
        /\ \A w \in Workers :
              /\ saw_sentinel[w] => wpc[w] \in {"fin_page", "fin_ctx", "done"}
              /\ wpc[w] = "done" => saw_sentinel[w]
        /\ mainpc \in {"aggregate", "loop", "done"} =>
              /\ queue = << >>
              /\ \A w \in Workers : wpc[w] = "done" /\ saw_sentinel[w]

\* the barrier of a batch has been passed
C9_Witness ==
    /\ mainpc = "aggregate"
    /\ \A w \in Workers : saw_sentinel[w]
    /\ batch_completed = Len(batch_tags)

\* C10: no page handles more than RecycleBudget units; a worker about to
\* dequeue or fetching is on an open session that has handled fewer than
\* RecycleBudget units, local_count is the number of units that session has
\* handled (0 right after a recycle), and every context the worker created
\* before is closed.
C10_RecycleBudget ==
    \A w \in Workers :
        /\ sess_units[w] <= RecycleBudget
        /\ wpc[w] \in {"get", "fetch"} =>
              /\ sess_units[w] < RecycleBudget
              /\ local_count[w] = sess_units[w]
              /\ context[w] = "open"
              /\ page[w] = "open"
              /\ unbound_ctx[w] = 0

\* a worker back at the queue on a fresh session after a recycle
C10_Witness ==
    \E w \in Workers :
        /\ recycled[w] >= 1
        /\ wpc[w] = "get"
        /\ local_count[w] = 0
        /\ overall_completed >= RecycleBudget

\* C11: a page on which an extraction got a blocked or malformed response is
\* replaced before the worker extracts its next unit: no worker ever fetches on
\* a page that has had such a failure.
C11_FailedSessionReplaced ==
    \A w \in Workers : wpc[w] = "fetch" => ~sess_invalid[w]

\* C12: a step in which the extraction of a unit raises leaves the worker in
\* its loop (at the queue or recycling, no exception propagating), marks the
\* unit done and counts it, and does not move main; main never ends by a
\* worker's exception, and when it has finished it has processed every
\* remaining unit in all of its batches.
C12_ExtractionErrorContained ==
    [][/\ \A w \in Workers :
             (wpc[w] = "fetch" /\ wpc'[w] # "fetch" /\ failed' # failed) =>
                 /\ wpc'[w] \in {"get", "rc_page"}
                 /\ ~raising'[w]
                 /\ unfinished' = unfinished - 1
                 /\ batch_completed' = batch_completed + 1
                 /\ mainpc' = mainpc
       /\ mainpc' # "crashed"
       /\ mainpc' = "done" =>
             /\ overall_completed' = total_tags'
             /\ settled' = NumBatches(total_tags')]_vars

\* a run that finished both of its batches although units failed in them
C12_Witness ==
    /\ mainpc = "done"
    /\ batch_no = 2
    /\ failed # {}
    /\ ~exists
    /\ overall_completed = total_tags

\* C13: once a batch is settled every unit of it whose extraction failed has
\* exactly one record in the failure log.
C13_FailureRecordPersisted ==
    (mainpc \in {"loop", "done"} /\ batch_no > 0) =>
        \A f \in failed :
            Cardinality({i \in 1..Len(FailureLog) : FailureLog[i][1] = f[1]}) = 1

\* C14: a unit abandoned after a transient failure (a timeout) has been tried
\* more than once.
C14_TransientRetried ==
    \A f \in failed : f[2] = "transient" => f[3] > 1

\* C17 as claimed: when a run has resolved its resume offset, every unit of
\* the shard that has no row in the output is in the remaining work.
C17_FailedUnitsRetriedOnResume ==
    (mainpc = "loop" /\ batch_no = 0) =>
        \A i \in 1..Len(Shard) :
            ~HasRows(Shard[i]) => Index(replay_tags, Shard[i]) # 0

\* C17 as amended: when a run has resolved its resume offset, the remaining
\* work is exactly the units of the shard behind the identifier of the last
\* output row (the whole shard if that is no unit of the shard): a unit behind
\* it is attempted again, a unit before it is not, whether it has rows or not.
C17_ResumeDropsThroughLast ==
    (mainpc = "loop" /\ batch_no = 0) =>
        /\ replay_tags = SelectSeq(Shard, LAMBDA t : Index(Shard, t) > Index(Shard, LastId))
        /\ \A i \in 1..Len(Shard) :
              i <= Index(Shard, LastId) => Index(replay_tags, Shard[i]) = 0

\* a resumed run that skips unit 1, which failed before the last persisted unit 2
C17_Witness ==
    /\ run >= 2
    /\ mainpc = "loop"
    /\ batch_no = 0
    /\ LastId = 2
    /\ ~HasRows(1)
    /\ replay_tags = <<3>>

\* the debug lines written for clan c
DebugLinesOf(c) == {i \in 1..Len(k_debug) : k_debug[i][1] = c}

\* the clan k_idx is finished without a result, all its requests failed transiently
ClanGivenUpOnTransient ==
    /\ k_pc = "next"
    /\ k_hist # << >>
    /\ \A i \in 1..Len(k_hist) : k_hist[i] \in Transient

\* the clan k_idx is finished and all its `retries` requests failed transiently
ClanExhausted ==
    /\ k_pc = "next"
    /\ Len(k_hist) = retries
    /\ \A i \in 1..retries : k_hist[i] \in Transient

\* the clan k_idx is finished: retries - 1 transient failures, then a success
ClanLastAttemptOk ==
    /\ k_pc = "next"
    /\ Len(k_hist) = retries
    /\ \A i \in 1..(retries - 1) : k_hist[i] \in Transient
    /\ k_hist[retries] = "ok"

C16_PermanentNotRetried ==
    (k_pc = "next" /\ k_hist # << >> /\ k_hist[1] = "http4xx") =>
        /\ Len(k_hist) = 1
        /\ Cardinality(DebugLinesOf(k_idx)) = 1


\* the indices (1-based) at which the sorted card events and the placement
\* events carry different time strings
TimeDiffs ==
    {i \in 1..Min(Len(q_cards), Len(q_places)) :
        sorted_by_time(q_cards)[i].time # q_places[i].time}

\* C18: when the two event lists differ in length, parse_replay_html raises
\* the length error and returns no record.
C18_LengthMismatchRaises ==
    (q_pc = "done" /\ Len(q_cards) # Len(q_places)) =>
        /\ q_out.kind = "ValueError"
        /\ q_out.what = "length"
        /\ q_out.events = << >>

\* fewer cards than placements, all times of the common indices equal
C18_Witness ==
    /\ q_pc = "done"
    /\ Len(q_cards) = 2
    /\ Len(q_places) = 3
    /\ TimeDiffs = {}
    /\ q_out.kind = "ValueError"

\* C19: for lists of equal length, if the time strings differ at some index
\* the call raises the time error naming the smallest such index (0-based)
\* and returns no record; otherwise it returns records.
C19_TimeMismatchRaisesAtFirst ==
    (q_pc = "done" /\ Len(q_cards) = Len(q_places)) =>
        IF TimeDiffs # {}
        THEN /\ q_out.kind = "ValueError"
             /\ q_out.what = "time"
             /\ q_out.index + 1 \in TimeDiffs
             /\ \A i \in TimeDiffs : q_out.index + 1 <= i
             /\ q_out.events = << >>
        ELSE q_out.kind = "events"

\* the times differ at indices 1 and 2 (0-based), equal as numbers at index 1
C19_Witness ==
    /\ q_pc = "done"
    /\ Len(q_cards) = 3
    /\ TimeDiffs = {2, 3}
    /\ IntOf(sorted_by_time(q_cards)[2].time) = IntOf(q_places[2].time)
    /\ q_out.index = 1

\* C20: for lists of equal length whose time strings agree at every index
\* the call returns records; and whenever it returns records there is one per
\* index, each with the replay tag and the time of the placement at its
\* index, in ascending order of int(time).
C20_OneRecordPerIndexInTimeOrder ==
    q_pc = "done" =>
        /\ (Len(q_cards) = Len(q_places) /\ TimeDiffs = {}) => q_out.kind = "events"
        /\ q_out.kind = "events" =>
              /\ Len(q_out.events) = Len(q_cards)
              /\ Len(q_out.events) = Len(q_places)
              /\ \A i \in 1..Len(q_out.events) :
                    /\ q_out.events[i].replay_tag = q_tag
                    /\ q_out.events[i].time = q_places[i].time
              /\ \A i, j \in 1..Len(q_out.events) :
                    i < j => IntOf(q_out.events[i].time) <= IntOf(q_out.events[j].time)

\* three records from card elements that are not in time order in the document
C20_Witness ==
    /\ q_pc = "done"
    /\ q_out.kind = "events"
    /\ Len(q_out.events) = 3
    /\ IntOf(q_cards[1].time) > IntOf(q_cards[3].time)


\* the lists that hold the elements of s in some other (or the same) order
Reorderings(s) ==
    {[i \in 1..Len(s) |-> s[f[i]]] : f \in Permutations(1..Len(s))}

\* C21: the outcome of parse_replay_html does not depend on the document
\* order of the placement events: every reordering of them gives an outcome
\* of the same kind (records, or the same error).
C21_PlacementOrderIrrelevant ==
    q_pc = "done" =>
        \A p \in Reorderings(q_places) :
            LET other == parse_replay_html(q_cards, p, q_tag)
            IN  /\ other.kind = q_out.kind
                /\ other.what = q_out.what

\* the rows of q_out pair the card events sorted by int(time) with the placements
PairedCard(i) == sorted_by_time(q_cards)[i]

\* C22: in every returned row, if the card event's isAbility is "1" then x
\* and y are None and the name is "ability-" followed by the token between
\* the "ability-" marker and ".png" of the image path; otherwise the name is
\* the card name and x and y are those of the placement event of the index.
C22_FieldSelectionByDiscriminator ==
    (q_pc = "done" /\ q_out.kind = "events") =>
        \A i \in 1..Len(q_out.events) :
            LET row == q_out.events[i]
                ce == PairedCard(i)
                pe == q_places[i]
            IN  /\ row.isAbility = ce.isAbility
                /\ row.side = ce.side
                /\ IF ce.isAbility = "1"
                   THEN /\ row.x = "None"
                        /\ row.y = "None"
                        /\ ce.image_src[2] = "ability-"
                        /\ ce.image_src[4] = ".png"
                        /\ row.card_name = <<"ability-", ce.image_src[3]>>
                   ELSE /\ row.card_name = <<ce.card_name>>
                        /\ row.x = pe.x
                        /\ row.y = pe.y

\* records were returned, an ability row and a card row among them
C22_Witness ==
    /\ q_pc = "done"
    /\ q_out.kind = "events"
    /\ \E i, j \in 1..Len(q_out.events) :
          /\ q_out.events[i].isAbility = "1"
          /\ q_out.events[i].x = "None"
          /\ q_out.events[j].isAbility = "0"
          /\ q_out.events[j].x = q_places[j].x


\* C23: a batch in which no unit succeeded (results is empty when main
\* aggregates) makes no write: the output, first_write and the row total stay
\* as they were, and main moves on to the next batch.
C23_EmptyBatchNoWrite ==
    [][(mainpc = "aggregate" /\ results = << >>) =>
          /\ file' = file
          /\ exists' = exists
          /\ first_write' = first_write
          /\ total_rows_written' = total_rows_written
          /\ mainpc' = "loop"
          /\ start' = start + BATCH_SIZE]_vars

\* main is back at the head of the loop after a batch whose units all failed,
\* and the output holds the rows of an earlier write
C23_Witness ==
    /\ mainpc = "loop"
    /\ settled >= 1
    /\ results = << >>
    /\ batch_tags # << >>
    /\ Cardinality(failed) = Len(batch_tags)
    /\ nwrites = 0
    /\ exists
    /\ Len(file) > 1


\* C25: a partitioning call whose shard index is outside 0..n-1 or whose
\* shard count is <= 0 ends in an error, for split_tags and for get_fraction:
\* neither returns a slice.
C25_BadParametersRejected ==
    (p_call.split.kind # "none" /\ ~(0 <= p_call.i /\ p_call.i < p_call.n)) =>
        /\ p_call.split.kind # "slice"
        /\ p_call.frac.kind # "slice"

\* C26 as claimed: shard i of n starts at the integer part of i*len/n and
\* ends before the integer part of (i+1)*len/n, the last shard at the end.
C26_BoundariesOfProduct ==
    \A j \in 1..Len(p_split) :
        /\ p_split[j] = Slice(p_tags, ((j - 1) * Len(p_tags)) \div p_n,
                              IF j = p_n THEN Len(p_tags)
                              ELSE (j * Len(p_tags)) \div p_n)
        /\ j <= Len(p_frac) => p_frac[j] = p_split[j]

\* C26 as amended: with seg the integer part of len/n, shard i of n starts at
\* i*seg and ends before (i+1)*seg, the last shard (i = n-1) at the end of the
\* list; split_tags and get_fraction return this same slice.
C26_BoundariesOfSegment ==
    LET seg == Len(p_tags) \div p_n
    IN  /\ \A j \in 1..Len(p_split) :
              p_split[j] = Slice(p_tags, (j - 1) * seg,
                                 IF j = p_n THEN Len(p_tags) ELSE j * seg)
        /\ \A j \in 1..Len(p_frac) :
              p_frac[j] = Slice(p_tags, (j - 1) * seg,
                                IF j = p_n THEN Len(p_tags) ELSE j * seg)

\* every shard of a list whose length is no multiple of the shard count
C26_Witness ==
    /\ Len(p_tags) = MaxListLen
    /\ p_n = MaxShards
    /\ MaxListLen % MaxShards # 0
    /\ Len(p_split) = p_n
    /\ Len(p_frac) = p_n
    /\ Len(p_split[p_n]) > MaxListLen \div MaxShards


\* C24: the batches main cuts are consecutive slices of the remaining work in
\* original order (their concatenation is a prefix of it, and all of it when
\* main is done); none is empty, none has more than BATCH_SIZE units, and only
\* the batch that ends the remaining work may have fewer.
C24_BatchesTileRemaining ==
    /\ Len(batches) = batch_no
    /\ batch_no >= 1 => batch_tags = batches[batch_no]
    /\ IsPrefix(Flatten(batches), replay_tags)
    /\ \A i \in 1..Len(batches) :
          /\ batches[i] # << >>
          /\ Len(batches[i]) <= BATCH_SIZE
          /\ i < Len(batches) => Len(batches[i]) = BATCH_SIZE
    /\ (batches # << >> /\ Len(batches[Len(batches)]) < BATCH_SIZE) =>
          Flatten(batches) = replay_tags
    /\ mainpc = "done" => Flatten(batches) = replay_tags

\* main is done after a full batch and a shorter last one
C24_Witness ==
    /\ mainpc = "done"
    /\ Len(batches) >= 2
    /\ Len(batches[1]) = BATCH_SIZE
    /\ Len(batches[Len(batches)]) < BATCH_SIZE

RECURSIVE SumOver(_, _)
SumOver(f, S) ==
    IF S = {} THEN 0
    ELSE LET x == CHOOSE y \in S : TRUE IN f[x] + SumOver(f, S \ {x})

\* contexts that exist and are not closed: those bound to a worker's variable
\* and those no variable is bound to
LiveSessions ==
    Cardinality({w \in Workers : context[w] = "open"}) + SumOver(unbound_ctx, Workers)

\* C27: two workers never hold the same open context, a page is open only on
\* its worker's own open context, at most MAX_WORKERS contexts are live at any
\* moment, and none is live when main has passed a batch's barrier.
C27_SessionsExclusiveAndBounded ==
    /\ \A w1, w2 \in Workers :
          (w1 # w2 /\ context[w1] = "open" /\ context[w2] = "open") =>
              ctx_id[w1] # ctx_id[w2]
    /\ \A w \in Workers :
          /\ context[w] = "open" => ctx_id[w] # NoContext
          /\ (page[w] = "open" /\ wpc[w] \in {"get", "fetch"}) => context[w] = "open"
    /\ LiveSessions <= MAX_WORKERS
    /\ mainpc \in {"aggregate", "loop", "done"} => LiveSessions = 0

\* every worker holds an open context, one of them its second of the batch
C27_Witness ==
    /\ LiveSessions = MAX_WORKERS
    /\ \A w \in Workers : context[w] = "open"
    /\ \E w \in Workers : recycled[w] >= 1 /\ ctx_seq[w] >= 2

\* C28: the batch counter is the number of units marked done in the batch and
\* the overall counter the number marked done in the run, at every moment; so
\* past the barrier the batch counter is the batch size and the overall
\* counter the number of units of all batches cut so far.
C28_CountersExact ==
    /\ batch_completed =
          SumOver(dones, Workers) - Cardinality({w \in Workers : saw_sentinel[w]})
    /\ overall_completed =
          Len(Flatten(batches)) - Len(batch_tags) + batch_completed
    /\ mainpc \in {"await", "aggregate"} =>
          /\ batch_completed = Len(batch_tags)
          /\ overall_completed = Len(Flatten(batches))

\* past the barrier of the second batch, a failed unit counted
C28_Witness ==
    /\ mainpc = "aggregate"
    /\ batch_no >= 2
    /\ failed # {}
    /\ overall_completed = Len(Flatten(batches))
    /\ overall_completed > BATCH_SIZE

\* C29: after a write of at least one row the last row of the output names
\* the unit with the highest position in the shard among all units that gave
\* at least one row, in this run or an earlier one, and every identifier in
\* the output lies at or before it.
C29_LastRowIsHighestWithRows ==
    (mainpc = "loop" /\ nwrites = 1 /\ written # << >>) =>
        /\ top_rows >= 1
        /\ Index(Shard, LastId) = top_rows
        /\ \A i \in 1..Len(file) :
              file[i] = HeaderLine \/
                  /\ Index(Shard, file[i][1]) >= 1
                  /\ Index(Shard, file[i][1]) <= top_rows

\* C30: in one run a unit is put on a queue at most once and taken from it at
\* most once; past a batch's barrier every unit cut so far was taken exactly
\* once, and when main is done so was every unit of the remaining work; a
\* worker has called task_done once for every item it got, the one it is
\* working on excepted, and the queue's count of unfinished items agrees.
C30_EachUnitOncePerRun ==
    /\ \A t \in 1..NumTags :
          /\ enq[t] <= 1
          /\ deq[t] <= enq[t]
          /\ enq[t] = 1 <=> \E i \in 1..Len(batches) :
                                \E j \in 1..Len(batches[i]) : batches[i][j] = t
    /\ mainpc \in {"await", "aggregate", "loop", "done"} =>
          \A t \in 1..NumTags : deq[t] = enq[t]
    /\ mainpc = "done" =>
          \A i \in 1..Len(replay_tags) : deq[replay_tags[i]] = 1
    /\ \A w \in Workers :
          dones[w] = gets[w] - (IF wpc[w] = "fetch" THEN 1 ELSE 0)
    /\ batch_no >= 1 =>
          unfinished = Len(batch_tags) + MAX_WORKERS - SumOver(dones, Workers)

\* main is done after two batches, the unit of the last batch failed and was
\* taken once
C30_Witness ==
    /\ mainpc = "done"
    /\ batch_no >= 2
    /\ \E f \in failed : deq[f[1]] = 1 /\ enq[f[1]] = 1
    /\ \A w \in Workers : gets[w] >= 1 /\ dones[w] = gets[w]


\* C35: fetch_clan_members makes at most `retries` requests, none after a
\* success, and sleeps backoff ** k only between the failed attempt k and the
\* attempt k + 1: when the call has ended, every sleep was followed by a
\* request.
C35_NoWaitAfterLastAttempt ==
    /\ Len(k_hist) <= retries
    /\ \A i \in 1..(Len(k_hist) - 1) : k_hist[i] # "ok"
    /\ \A i \in 1..Len(k_waits) : k_waits[i] = i
    /\ (k_pc = "next" /\ k_hist # << >>) => Len(k_waits) = Len(k_hist) - 1


\* C36: split_for_workers returns min(max_workers, len(ids)) buckets, none
\* empty, whose sizes differ by at most 1; bucket b holds the ids of the
\* positions b, b + n, b + 2n, ... in that order, so every position of the
\* input is in exactly one bucket; for no ids it returns no bucket.
C36_RoundRobinBuckets ==
    s_pc = "done" =>
        LET n == Len(s_buckets)
        IN  /\ n = Min(s_max, Len(s_ids))
            /\ s_ids = << >> => s_buckets = << >>
            /\ \A b \in 1..n : s_buckets[b] # << >>
            /\ \A b, c \in 1..n : Len(s_buckets[b]) - Len(s_buckets[c]) <= 1
            /\ SumOver([b \in 1..n |-> Len(s_buckets[b])], 1..n) = Len(s_ids)
            /\ \A i \in 1..Len(s_ids) :
                  Cardinality({<<b, j>> \in (1..n) \X (1..Len(s_ids)) :
                                  j <= Len(s_buckets[b]) /\ s_buckets[b][j] = s_ids[i]}) = 1
            /\ \A b \in 1..n : \A j \in 1..Len(s_buckets[b]) :
                  s_buckets[b][j] = s_ids[(j - 1) * n + b]
            /\ \A b \in 1..n : \A j, k \in 1..Len(s_buckets[b]) :
                  j < k => Index(s_ids, s_buckets[b][j]) < Index(s_ids, s_buckets[b][k])

\* more ids than buckets, not a multiple: buckets of two sizes
C36_Witness ==
    /\ s_pc = "done"
    /\ Len(s_buckets) = s_max
    /\ s_max >= 2
    /\ Len(s_ids) % s_max # 0
    /\ Len(s_buckets[1]) = Len(s_buckets[s_max]) + 1
    /\ Len(s_buckets[s_max]) >= 1


\* C32: in every run, the first and every resumed one, no unit of the
\* remaining work has rows in the output main started on (the output is as
\* main found it until its first write), only units of the remaining work are
\* put on a queue, and no line of the output occurs twice.
C32_NoCompletedUnitRedone ==
    /\ (mainpc # "start" /\ first_write) =>
          \A i \in 1..Len(replay_tags) : ~HasRows(replay_tags[i])
    /\ \A t \in 1..NumTags :
          enq[t] >= 1 => \E i \in 1..Len(replay_tags) : replay_tags[i] = t
    /\ \A i, j \in 1..Len(file) : i # j => file[i] # file[j]

\* a resumed run on an output with rows has taken a unit from the queue and
\* has not written yet
C32_Witness ==
    /\ run >= 2
    /\ first_write
    /\ exists
    /\ Len(file) > 1
    /\ \E t \in 1..NumTags : deq[t] = 1 /\ ~HasRows(t)

\* the positions chunk k stands for in multiwindow.run
PositionsOf(k) == chunk_ids((k - 1) * CHUNK_SIZE, CHUNK_SIZE)

\* C33: in multiwindow.run the file battles_chunk_k only holds rows of the
\* positions (k-1)*CHUNK_SIZE .. k*CHUNK_SIZE-1; a run starts at position
\* m*CHUNK_SIZE with chunk index m+1 for the largest chunk number m existing at
\* its start, so no existing file is overwritten and no position that was never
\* processed is skipped, also when some chunk produced no file
C33_ChunkResumeAligned ==
    /\ \A k \in ChunkNos : c_files[k] # NoFile => c_files[k] \subseteq PositionsOf(k)
    /\ ~c_over
    /\ c_pc # "start" =>
          /\ c_start = (c_index - 1) * CHUNK_SIZE
          /\ c_index >= c_base + 1
          /\ c_base = 0 \/ c_files[c_base] # NoFile
          /\ \A k \in ChunkNos : c_files[k] # NoFile => k < c_index
          /\ \A p \in Positions : p < c_start => p \in c_done

\* a restarted run has written the chunk after the largest one it found, and
\* an earlier chunk produced no file
C33_Witness ==
    /\ c_runs >= 2 /\ c_pc = "loop"
    /\ c_base >= 2 /\ c_files[c_base + 1] # NoFile
    /\ \E k \in 1..(c_base - 1) : c_files[k] = NoFile

\* C34: in playwright_testing.run a restart skips only players that an earlier
\* run scanned and never overwrites a chunk file written by an earlier run
C34_RestartSkipsOnlyCovered ==
    /\ ~c_over
    /\ c_pc # "start" => \A p \in Positions : p < c_start => p \in c_done

\* C31: when no session construction fails and every extraction call returns
\* or raises, then in every batch, also one with fewer units than MAX_WORKERS,
\* queue.join returns, every worker takes a sentinel and ends before main
\* goes on, and main finishes all batches
C31_Terminates ==
    /\ [](mainpc = "join" => <>(mainpc = "await"))
    /\ [](mainpc = "await" => <>(mainpc = "aggregate"))
    /\ [](mainpc = "aggregate" =>
             \A w \in Workers : wpc[w] = "done" /\ saw_sentinel[w] /\ tag[w] = NoneItem)
    /\ <>(mainpc = "done")
    /\ [](mainpc = "done" => start >= total_tags /\ settled = NumBatches(total_tags))

\* main is done after a last batch of fewer units than workers
C31_Witness ==
    /\ mainpc = "done"
    /\ batch_no >= 2
    /\ batch_tags # << >> /\ Len(batch_tags) < MAX_WORKERS
    /\ \A w \in Workers : wpc[w] = "done" /\ saw_sentinel[w]
    /\ \E w \in Workers : gets[w] = 1
====
